---- MODULE Spec2Model ----
(***************************************************************************)
(* Model of package chancacher (gravwell): a pipeline In -> Out with a     *)
(* bounded buffer and an on-disk double-buffered cache (cache_a, cache_b). *)
(* One pipeline instance is modelled at a time (generation gen), together  *)
(* with the goroutines run and cacheHandler, a caller of Commit, a         *)
(* producer, a consumer, the constructor NewChanCacher (which may be       *)
(* called while a pipeline is live), and the directory on disk.            *)
(*                                                                         *)
(* Values are positive integers, each sent once, so that loss and          *)
(* duplication are visible.  0 stands for nil.  A file is the sequence of  *)
(* records gob has encoded into it; decoding reads the next record.        *)
(* Files are inodes: a name of the directory points to an inode, and an    *)
(* open handle keeps designating its inode whatever happens to the name.   *)
(* Fields that the code reads without holding cacheLock (runDone,          *)
(* cacheModified, cacheReading, cacheCommitted) are read one per step, so  *)
(* that every interleaving of the unsynchronised reads is explored.        *)
(***************************************************************************)
EXTENDS Integers, Sequences, FiniteSets, Bags, TLC

\* ---------------------------------------------------------------- bounds
MaxSend == 2
Depth == 1
MaxCycles == 2

NIL == 0
\* a record that gob cannot decode (bytes that are not a gob message)
CORRUPT == 0 - 1

\* ----------------------------------------------------------------- state
VARIABLES
  names,          \* directory: file name -> inode (0: no such file)
  disk,           \* inode -> records of the file
  lockOwner,      \* generation holding the flock on <dir>/lock, 0: free
  gen,            \* generation of the pipeline whose goroutines run (0: none)
  cache,          \* c.cache
  maxSize,        \* c.maxSize (0: no disk budget)
  gateOpen,       \* c.cachePaused is closed (the cache is started)
  out,            \* c.Out: buffered values
  outClosed,      \* c.Out has been closed
  inClosed,       \* c.In has been closed
  runpc, runv,    \* run(): position, value in hand
  runDone,        \* c.runDone
  hpc, hv, rpos,  \* cacheHandler(): position, value in hand, records decoded from cacheR
  cacheR, cacheW, \* c.cacheR, c.cacheW (inodes of the open handles)
  cacheModified, cacheReading,
  cacheLock,      \* c.cacheLock: "" or the holder
  cacheDone, cacheAck, cacheIsDone, cacheCommitted,
  filesClosed,    \* Commit has closed cacheR and cacheW
  cpc, cv, readerStopped,   \* Commit(): position, value in hand, local flag
  npc, nid, sizeR, sizeW, fa, fb, ft, nR, nW, nMod, nres, final,  \* NewChanCacher call in progress
  snap,           \* history: the inodes of cache_a and cache_b when the call began
  nextVal,        \* next fresh value of the producer
  nsent,          \* values sent on In of the current pipeline
  sent,           \* history: values accepted from In, in order (all generations)
  recovered,      \* history: records found on disk at the first construction
  received,       \* history: values received from Out, in order
  spilled,        \* history: values appended to a cache file by cacheValue
  crashAt,        \* history: the step of NewChanCacher a crash interrupted ("": no crash, "run": no call in progress, "panic": a closed channel was closed)
  quar,           \* directory quarantine: file name -> the set of <<rest, inode>> of the files <name>.<rest>
  atCrash,        \* history: <<records under cache_a and cache_b, Len(received)>> when the process was killed
  held,           \* history: the value run held in its select when CacheStart reopened the gate
  decoded,        \* history: the values cacheHandler decoded, in order (current pipeline)
  written,        \* history: the values cacheValue encoded, in order (current pipeline)
  lost,           \* history: the values of records destroyed on disk or left undecoded after a decode error
  runGate,        \* the channel c.cachePaused that the select of run waits on is closed
  lastGate,       \* history: the last call of CacheStart ("start") or CacheStop ("stop") that returned, or "none"
  mode            \* what is at the path cache_a: "file", "noperm" (a file that cannot be opened) or "dir"

fsVars == <<names, disk, lockOwner>>
chanVars == <<out, outClosed, inClosed>>
runVars == <<runpc, runv, runDone>>
hVars == <<hpc, hv, rpos>>
fileVars == <<cacheR, cacheW, cacheModified, cacheReading, cacheLock>>
doneVars == <<cacheDone, cacheAck, cacheIsDone, cacheCommitted, filesClosed>>
cVars == <<cpc, cv, readerStopped>>
nVars == <<npc, nid, sizeR, sizeW, fa, fb, ft, nR, nW, nMod, nres, final, snap>>
prodVars == <<nextVal, nsent, sent>>
histVars == <<recovered, received, spilled, crashAt>>
cfgVars == <<gen, cache, maxSize>>
ioAux == <<decoded, written, lost>>
gateAux == <<runGate, lastGate>>
auxVars == <<quar, atCrash, held, ioAux, gateAux, mode>>
vars == <<fsVars, cfgVars, gateOpen, chanVars, runVars, hVars, fileVars, doneVars,
          cVars, nVars, prodVars, histVars, auxVars>>

\* --------------------------------------------------------------- helpers
Range(s) == {s[i] : i \in 1..Len(s)}

RECURSIVE SeqToBag(_)
SeqToBag(s) == IF s = <<>> THEN EmptyBag ELSE SetToBag({}) (+) [x \in {Head(s)} |-> 1] (+) SeqToBag(Tail(s))

RECURSIVE NoNil(_)
\* the records a Decode/Encode loop copies: nil values are skipped
NoNil(s) == IF s = <<>> THEN <<>>
            ELSE IF Head(s) = NIL THEN NoNil(Tail(s)) ELSE <<Head(s)>> \o NoNil(Tail(s))

Drop(s, n) == SubSeq(s, n + 1, Len(s))

\* content of a file name (empty when the name does not exist)
Content(name) == IF names[name] = 0 THEN <<>> ELSE disk[names[name]]

NoDup(s) == \A i, j \in 1..Len(s) : s[i] = s[j] => i = j

\* ------------------------------------------------------------ the files
\* every goroutine of the current pipeline has returned (or none was started)
PipeQuiet == gen = 0 \/ (runpc \in {"done", "dead"} /\ hpc \in {"off", "done", "dead"}
                         /\ cpc \in {"idle", "done", "dead"})

\* ------------------------------------------------------- NewChanCacher
\* a call of NewChanCacher(depth, dir, 0, lgr) begins; isFinal: its pipeline
\* will be read by a consumer
NewCall(isFinal) ==
  /\ npc = "idle"
  /\ npc' = "clean"
  /\ nid' = gen + 1
  /\ final' = isFinal
  /\ nres' = "none"
  /\ snap' = <<names["cache_a"], names["cache_b"]>>
  /\ UNCHANGED <<sizeR, sizeW, fa, fb, ft, nR, nW, nMod>>

\* filepath.Glob(merge*) ; os.Remove of each
NewClean ==
  /\ npc = "clean"
  /\ names' = [names EXCEPT !["merge"] = 0]
  /\ npc' = "stat"
  /\ UNCHANGED <<disk, lockOwner, cfgVars, gateOpen, chanVars, runVars, hVars, fileVars, doneVars,
                 cVars, nid, sizeR, sizeW, fa, fb, ft, nR, nW, nMod, nres, final, snap, prodVars, histVars, auxVars>>

\* os.Stat(rPath), os.Stat(wPath): sizes in records, both read in one step
\* (the size of a directory is not 0)
NewStat ==
  /\ npc = "stat"
  /\ sizeR' = (IF mode = "dir" THEN 1 ELSE Len(Content("cache_a")))
  /\ sizeW' = Len(Content("cache_b"))
  /\ npc' = "shuffle"
  /\ UNCHANGED <<fsVars, cfgVars, gateOpen, chanVars, runVars, hVars, fileVars, doneVars,
                 cVars, nid, fa, fb, ft, nR, nW, nMod, nres, final, snap, prodVars, histVars, auxVars>>

\* the directory after os.Rename(wPath, rPath)
\* (faulty variant: the file is removed instead of renamed)
RenameWtoRBad(nm) == [nm EXCEPT !["cache_b"] = 0]
RenameWtoR(nm) == [nm EXCEPT !["cache_a"] = nm["cache_b"], !["cache_b"] = 0]

\* "if only one file has data in it, just shuffle the files around. If both
\* have data, merge."
NewShuffle ==
  /\ npc = "shuffle"
  /\ IF sizeW # 0 /\ sizeR = 0
       THEN IF names["cache_b"] = 0
              THEN npc' = "idle" /\ nres' = "err" /\ UNCHANGED names
              ELSE npc' = "lock" /\ names' = RenameWtoR(names) /\ UNCHANGED nres
       ELSE /\ npc' = IF sizeW # 0 /\ sizeR # 0 THEN "m_open" ELSE "lock"
            /\ UNCHANGED <<names, nres>>
  /\ UNCHANGED <<disk, lockOwner, cfgVars, gateOpen, chanVars, runVars, hVars, fileVars, doneVars,
                 cVars, nid, sizeR, sizeW, fa, fb, ft, nR, nW, nMod, final, snap, prodVars, histVars, auxVars>>

\* merge: os.Open(a), os.Open(b), os.CreateTemp(dir, "merge")
MergeOpen ==
  /\ npc = "m_open"
  /\ IF names["cache_a"] = 0 \/ names["cache_b"] = 0
       THEN npc' = "idle" /\ nres' = "err" /\ UNCHANGED <<names, disk, fa, fb, ft>>
       ELSE /\ fa' = names["cache_a"]
            /\ fb' = names["cache_b"]
            /\ ft' = Len(disk) + 1
            /\ disk' = Append(disk, <<>>)
            /\ names' = [names EXCEPT !["merge"] = Len(disk) + 1]
            /\ npc' = "m_copyA"
            /\ UNCHANGED nres
  /\ UNCHANGED <<lockOwner, cfgVars, gateOpen, chanVars, runVars, hVars, fileVars, doneVars,
                 cVars, nid, sizeR, sizeW, nR, nW, nMod, final, snap, prodVars, histVars, auxVars>>

\* the records the merge loops append to the temporary file from one source
\* (faulty variant: nothing is copied)
MergeBad(src) == <<>>
MergeKeepNil(src) == src
MergeCopy(src) == NoNil(src)

\* a decoding loop reaches io.EOF on the file: every record decodes
DecodesToEOF(f) == CORRUPT \notin Range(f)

\* merge: one copy loop, from src into the temporary file; a decoding error
\* other than io.EOF makes merge return it (the deferred os.Remove(t.Name())
\* deletes the temporary file) and NewChanCacher return the error
MergeLoop(src, next) ==
  IF DecodesToEOF(disk[src])
    THEN /\ disk' = [disk EXCEPT ![ft] = @ \o MergeCopy(disk[src])]
         /\ npc' = next
         /\ UNCHANGED <<names, nres>>
    ELSE /\ names' = [names EXCEPT !["merge"] = IF @ = ft THEN 0 ELSE @]
         /\ npc' = "idle" /\ nres' = "err"
         /\ UNCHANGED disk

\* merge: decode every value of a, encode it into the temporary file
MergeCopyA ==
  /\ npc = "m_copyA"
  /\ MergeLoop(fa, "m_copyB")
  /\ UNCHANGED <<lockOwner, cfgVars, gateOpen, chanVars, runVars, hVars, fileVars, doneVars,
                 cVars, nid, sizeR, sizeW, fa, fb, ft, nR, nW, nMod, final, snap, prodVars, histVars, auxVars>>

\* merge: decode every value of b, encode it into the temporary file
MergeCopyB ==
  /\ npc = "m_copyB"
  /\ MergeLoop(fb, "m_rmA")
  /\ UNCHANGED <<lockOwner, cfgVars, gateOpen, chanVars, runVars, hVars, fileVars, doneVars,
                 cVars, nid, sizeR, sizeW, fa, fb, ft, nR, nW, nMod, final, snap, prodVars, histVars, auxVars>>

\* merge: fa.Close() ; os.Remove(a)
MergeRmA ==
  /\ npc = "m_rmA"
  /\ names' = [names EXCEPT !["cache_a"] = 0]
  /\ npc' = "m_rmB"
  /\ UNCHANGED <<disk, lockOwner, cfgVars, gateOpen, chanVars, runVars, hVars, fileVars, doneVars,
                 cVars, nid, sizeR, sizeW, fa, fb, ft, nR, nW, nMod, nres, final, snap, prodVars, histVars, auxVars>>

\* merge: fb.Close() ; os.Remove(b)
MergeRmB ==
  /\ npc = "m_rmB"
  /\ names' = [names EXCEPT !["cache_b"] = 0]
  /\ npc' = "m_rename"
  /\ UNCHANGED <<disk, lockOwner, cfgVars, gateOpen, chanVars, runVars, hVars, fileVars, doneVars,
                 cVars, nid, sizeR, sizeW, fa, fb, ft, nR, nW, nMod, nres, final, snap, prodVars, histVars, auxVars>>

\* merge: t.Close() ; os.Rename(t.Name(), a) ; the deferred os.Remove(t.Name())
MergeRename ==
  /\ npc = "m_rename"
  /\ IF names["merge"] # ft
       THEN npc' = "idle" /\ nres' = "err" /\ UNCHANGED names
       ELSE /\ names' = [names EXCEPT !["cache_a"] = ft, !["merge"] = 0]
            /\ npc' = "lock"
            /\ UNCHANGED nres
  /\ UNCHANGED <<disk, lockOwner, cfgVars, gateOpen, chanVars, runVars, hVars, fileVars, doneVars,
                 cVars, nid, sizeR, sizeW, fa, fb, ft, nR, nW, nMod, final, snap, prodVars, histVars, auxVars>>

\* flock.TryLock on <dir>/lock: granted when nobody holds it
\* (faulty variant: the lock is always granted)
TryLockBad(owner) == TRUE
TryLock(owner) == owner = 0

\* c.fileLock.TryLock(); "could not get file lock!"
NewLock ==
  /\ npc = "lock"
  /\ IF TryLock(lockOwner)
       THEN lockOwner' = nid /\ npc' = "open" /\ UNCHANGED nres
       ELSE npc' = "idle" /\ nres' = "locked" /\ UNCHANGED lockOwner
  \* the sizes and the handles of merge are not read after this point
  /\ sizeR' = 0 /\ sizeW' = 0 /\ fa' = 0 /\ fb' = 0 /\ ft' = 0
  /\ UNCHANGED <<names, disk, cfgVars, gateOpen, chanVars, runVars, hVars, fileVars, doneVars,
                 cVars, nid, nR, nW, nMod, final, snap, prodVars, histVars, auxVars>>

\* validateCache: decode the file end to end; nil on io.EOF
validateCache(f) == DecodesToEOF(f)

\* ------------------------------------------------ names of quarantine files
\* a file of the quarantine directory is <name>.<rest>; rest is a string, a
\* sequence of characters: the digits 0..9 stand for themselves, and
DOT == 10
MINUS == 11
LETTER == 12

\* the width of int, scaled down from 64 bits
IntBits == 4
MaxInt == 2 ^ (IntBits - 1) - 1
MinInt == 0 - 2 ^ (IntBits - 1)

\* int arithmetic wraps around
Wrap(x) == ((x - MinInt) % (2 ^ IntBits)) + MinInt

\* the decimal digits of n >= 0
RECURSIVE Digits(_)
Digits(n) == IF n < 10 THEN <<n>> ELSE Digits(n \div 10) \o <<n % 10>>

\* the verb %d of fmt.Sprintf
Itoa(n) == IF n < 0 THEN <<MINUS>> \o Digits(0 - n) ELSE Digits(n)

\* the number a string of digits denotes
RECURSIVE DigitsValue(_)
DigitsValue(s) ==
  IF s = <<>> THEN 0 ELSE 10 * DigitsValue(SubSeq(s, 1, Len(s) - 1)) + s[Len(s)]

\* strconv.Atoi: an optional sign, then digits only and at least one; a
\* number out of the range of int is an error too
Atoi(s) ==
  LET neg  == s # <<>> /\ s[1] = MINUS
      body == IF neg THEN Tail(s) ELSE s
      val  == IF neg THEN 0 - DigitsValue(body) ELSE DigitsValue(body)
  IN IF body = <<>> \/ (\E i \in 1..Len(body) : body[i] \notin 0..9)
       THEN [ok |-> FALSE, val |-> 0]
     ELSE IF val < MinInt \/ val > MaxInt
       THEN [ok |-> FALSE, val |-> 0]
     ELSE [ok |-> TRUE, val |-> val]

\* filepath.Ext(m)[1:] for the match <name>.<rest>: what follows the last dot
ExtTail(rest) ==
  LET dots == {i \in 1..Len(rest) : rest[i] = DOT}
  IN IF dots = {} THEN rest
     ELSE SubSeq(rest, (CHOOSE i \in dots : \A j \in dots : j <= i) + 1, Len(rest))

\* the rest of the name of the next file of the quarantine directory;
\* matches: the rests of the files <name>.* it holds
getQuarantineCacheName(matches) ==
  IF matches = {} THEN Itoa(1)
  ELSE LET vals   == {Atoi(ExtTail(m)).val : m \in {k \in matches : Atoi(ExtTail(k)).ok}}
           maxVal == CHOOSE v \in vals \cup {0} : \A w \in vals \cup {0} : w <= v
       IN Itoa(Wrap(maxVal + 1))

\* quarantineCache: os.Rename(cPath, newCPath) ; os.OpenFile(cPath, O_CREATE)
\* fs: the directory [nm, d, q] (names, files, quarantine); Rename replaces
\* a file that has the new name
\* (faulty variant: the file is copied and stays where it was)
quarantineCacheCopy(fs, name) ==
  LET r == getQuarantineCacheName({e[1] : e \in fs.q[name]})
  IN [fs EXCEPT
        !.d = Append(fs.d, fs.d[fs.nm[name]]),
        !.q = [fs.q EXCEPT ![name] = {e \in @ : e[1] # r} \cup {<<r, Len(fs.d) + 1>>}]]

quarantineCache(fs, name) ==
  LET r == getQuarantineCacheName({e[1] : e \in fs.q[name]})
  IN [fs EXCEPT
        !.nm = [fs.nm EXCEPT ![name] = Len(fs.d) + 1],
        !.d = Append(fs.d, <<>>),
        !.q = [fs.q EXCEPT ![name] = {e \in @ : e[1] # r} \cup {<<r, fs.nm[name]>>}]]

\* what is at the path cache_a: a regular file, a regular file without
\* permissions (os.OpenFile fails with os.ErrPermission), or a directory
\* (os.OpenFile fails with EISDIR); cache_b is always a regular file
PathModes == {"file", "noperm", "dir"}
ModeOf(md, name) == IF name = "cache_a" THEN md ELSE "file"

\* openCache: open or create the file, validate it; quarantine it when
\* opening fails for permissions or when it does not parse; any other
\* failure to open is returned. fs: the directory, with md the mode of
\* cache_a and err the error returned
\* (faulty variant: every failure to open quarantines)
openCacheAlways(fs, name) ==
  LET opened == IF fs.nm[name] = 0
                  THEN [fs EXCEPT !.nm[name] = Len(fs.d) + 1, !.d = Append(fs.d, <<>>)]
                  ELSE fs
  IN IF ModeOf(fs.md, name) \in {"noperm", "dir"}
       THEN [quarantineCache(fs, name) EXCEPT !.md = "file"]
     ELSE IF validateCache(opened.d[opened.nm[name]]) THEN opened
     ELSE quarantineCache(opened, name)

openCache(fs, name) ==
  LET opened == IF fs.nm[name] = 0
                  THEN [fs EXCEPT !.nm[name] = Len(fs.d) + 1, !.d = Append(fs.d, <<>>)]
                  ELSE fs
  IN IF ModeOf(fs.md, name) = "noperm"
       THEN [quarantineCache(fs, name) EXCEPT !.md = "file"]
     ELSE IF ModeOf(fs.md, name) = "dir"
       THEN [fs EXCEPT !.err = TRUE]
     ELSE IF validateCache(opened.d[opened.nm[name]]) THEN opened
     ELSE quarantineCache(opened, name)

\* openCache(rPath), openCache(wPath), NewFileCounter, the size test of
\* cacheW, the two go statements and the return of the new pipeline; when
\* openCache fails, its error is returned at once (the lock stays as it is)
NewOpen ==
  /\ npc = "open"
  /\ LET r == openCache([nm |-> names, d |-> disk, q |-> quar, md |-> mode, err |-> FALSE],
                        "cache_a")
         w == IF r.err THEN r ELSE openCache(r, "cache_b")
     IN /\ names' = w.nm
        /\ disk' = w.d
        /\ quar' = w.q
        /\ mode' = w.md
        /\ IF w.err
             THEN npc' = "idle" /\ nres' = "err" /\ UNCHANGED <<nR, nW, nMod>>
             ELSE /\ nR' = w.nm["cache_a"]
                  /\ nW' = w.nm["cache_b"]
                  /\ nMod' = (Len(w.d[w.nm["cache_b"]]) # 0)
                  /\ npc' = "go"
                  /\ nres' = "ok"
  /\ UNCHANGED <<lockOwner, cfgVars, gateOpen, chanVars, runVars, hVars, fileVars, doneVars,
                 cVars, nid, sizeR, sizeW, fa, fb, ft, final, snap, prodVars, histVars, atCrash, held,
                 ioAux, gateAux>>

\* the goroutines cacheHandler and run of the new pipeline start running.
\* One pipeline's goroutines are modelled at a time: the scheduler starts the
\* new ones once those of the previous pipeline have returned (the call
\* itself has returned at NewOpen; nothing can be sent before run receives)
NewGo ==
  /\ npc = "go"
  /\ PipeQuiet
  /\ npc' = "idle"
  /\ gen' = nid
  /\ cache' = TRUE
  /\ gateOpen' = TRUE
  /\ UNCHANGED maxSize
  /\ out' = <<>> /\ outClosed' = FALSE /\ inClosed' = FALSE
  /\ runpc' = "recv" /\ runv' = NIL /\ runDone' = FALSE
  /\ hpc' = "h0" /\ hv' = NIL /\ rpos' = 0
  /\ cacheR' = nR /\ cacheW' = nW /\ cacheModified' = nMod /\ cacheReading' = FALSE
  /\ cacheLock' = ""
  /\ cacheDone' = FALSE /\ cacheAck' = FALSE /\ cacheIsDone' = FALSE
  /\ cacheCommitted' = FALSE /\ filesClosed' = FALSE
  /\ cpc' = "idle" /\ cv' = NIL /\ readerStopped' = FALSE
  /\ nsent' = 0
  /\ decoded' = <<>> /\ written' = <<>>
  /\ runGate' = TRUE /\ lastGate' = "none"
  /\ UNCHANGED <<fsVars, nid, sizeR, sizeW, fa, fb, ft, nR, nW, nMod, nres, final, snap,
                 nextVal, sent, histVars, quar, atCrash, held, lost, mode>>

NewChanCacher ==
  \/ NewClean \/ NewStat \/ NewShuffle
  \/ MergeOpen \/ MergeCopyA \/ MergeCopyB \/ MergeRmA \/ MergeRmB \/ MergeRename
  \/ NewLock \/ NewOpen \/ NewGo

\* ------------------------------------------------------------- channels
\* a send on c.Out can complete: the buffer has room
\* (faulty variants: the capacity is not tested; it is one too large)
CanSendUnbounded == ~outClosed
CanSendOneMore == ~outClosed /\ Len(out) <= Depth
CanSend == ~outClosed /\ Len(out) < Depth

\* fileCounter.Count(): the bytes resident in the file, incremented by a
\* write, decremented by a read, reset by Truncate (one record counts one
\* byte; pos: the records read from the file)
CountBad(f, pos) == Len(disk[f])
Count(f, pos) == Len(disk[f]) - pos

\* Size(): c.cacheR.Count() + c.cacheW.Count()
Size == Count(cacheR, rpos) + Count(cacheW, 0)

\* CacheHasData()
CacheHasData == cacheModified \/ cacheReading

\* the file after cacheEnc.Encode(&v) on the writer handle
\* (faulty variants: the record is not written; it is written in front)
EncodeBad(f, v) == f
EncodeFront(f, v) == <<v>> \o f
Encode(f, v) == Append(f, v)

\* ------------------------------------------------------------ producer
\* close(c.In)
CloseIn ==
  /\ gen > 0 /\ ~inClosed /\ runpc # "dead"
  /\ inClosed' = TRUE
  /\ UNCHANGED <<fsVars, cfgVars, gateOpen, out, outClosed, runVars, hVars, fileVars, doneVars,
                 cVars, nVars, prodVars, histVars, auxVars>>

\* ----------------------------------------------------------------- run
\* "for v := range c.In": the producer's send and run's receive rendezvous;
\* the producer offers n values
RunRecvOf(n) ==
  /\ runpc = "recv" /\ ~inClosed /\ nsent < n
  /\ runv' = nextVal
  /\ nextVal' = nextVal + 1
  /\ nsent' = nsent + 1
  /\ sent' = Append(sent, nextVal)
  /\ runpc' = "try"
  /\ UNCHANGED <<fsVars, cfgVars, gateOpen, chanVars, runDone, hVars, fileVars, doneVars,
                 cVars, nVars, histVars, auxVars>>

\* the range loop ends: c.In is closed
RunEnd ==
  /\ runpc = "recv" /\ inClosed
  /\ runpc' = "rd"
  /\ UNCHANGED <<fsVars, cfgVars, gateOpen, chanVars, runv, runDone, hVars, fileVars, doneVars,
                 cVars, nVars, prodVars, histVars, auxVars>>

\* select { case c.Out <- v: default: } and the test of c.cache
RunTry ==
  /\ runpc = "try"
  /\ IF CanSend
       THEN out' = Append(out, runv) /\ runv' = NIL /\ runpc' = "recv"
       ELSE runpc' = (IF cache THEN "sel" ELSE "block") /\ UNCHANGED <<out, runv>>
  \* the select evaluates c.cachePaused once, when run enters it
  /\ runGate' = (IF ~CanSend /\ cache THEN gateOpen ELSE runGate)
  /\ UNCHANGED <<fsVars, cfgVars, gateOpen, outClosed, inClosed, runDone, hVars, fileVars, doneVars,
                 cVars, nVars, prodVars, histVars, quar, atCrash, held, ioAux, lastGate, mode>>

\* c.Out <- v of the pipeline without cache (line 228), and the case
\* c.Out <- v of the second select (line 235)
\* (faulty variant: the value is dropped when Out has room again)
RunSendOutBad ==
  /\ runpc \in {"block", "sel"}
  /\ CanSend
  /\ runv' = NIL /\ runpc' = "recv"
  /\ UNCHANGED <<fsVars, cfgVars, gateOpen, chanVars, runDone, hVars, fileVars, doneVars,
                 cVars, nVars, prodVars, histVars, auxVars>>

RunSendOut ==
  /\ runpc \in {"block", "sel"}
  /\ CanSend
  /\ out' = Append(out, runv) /\ runv' = NIL /\ runpc' = "recv"
  /\ UNCHANGED <<fsVars, cfgVars, gateOpen, outClosed, inClosed, runDone, hVars, fileVars, doneVars,
                 cVars, nVars, prodVars, histVars, auxVars>>

\* case <-c.cachePaused: c.cacheValue(v)
\* (faulty variant: the case does not wait for cachePaused to be closed)
RunSelCacheBad ==
  /\ runpc = "sel"
  /\ runpc' = "cv"
  /\ UNCHANGED <<fsVars, cfgVars, gateOpen, chanVars, runv, runDone, hVars, fileVars, doneVars,
                 cVars, nVars, prodVars, histVars, auxVars>>

RunSelCache ==
  /\ runpc = "sel"
  /\ runGate
  /\ runpc' = "cv"
  /\ UNCHANGED <<fsVars, cfgVars, gateOpen, chanVars, runv, runDone, hVars, fileVars, doneVars,
                 cVars, nVars, prodVars, histVars, auxVars>>

\* cacheValue: the nil test and the wait "for c.maxSize != 0 && c.Size() >= c.maxSize"
RunCacheValue ==
  /\ runpc = "cv"
  /\ IF runv = NIL
       THEN runpc' = "recv"
       ELSE /\ ~(maxSize # 0 /\ Size >= maxSize)
            /\ runpc' = "cv1"
  /\ UNCHANGED <<fsVars, cfgVars, gateOpen, chanVars, runv, runDone, hVars, fileVars, doneVars,
                 cVars, nVars, prodVars, histVars, auxVars>>

\* cacheValue: c.cacheLock.Lock() ; c.cacheEnc.Encode(&v)
RunEncode ==
  /\ runpc = "cv1"
  /\ cacheLock = ""
  /\ cacheLock' = "run"
  /\ IF filesClosed THEN UNCHANGED disk
     ELSE disk' = [disk EXCEPT ![cacheW] = Encode(@, runv)]
  /\ spilled' = IF filesClosed THEN spilled ELSE spilled \cup {runv}
  /\ written' = IF filesClosed THEN written ELSE Append(written, runv)
  /\ runpc' = "cv2"
  /\ UNCHANGED <<names, lockOwner, cfgVars, gateOpen, chanVars, runv, runDone, hVars,
                 cacheR, cacheW, cacheModified, cacheReading, doneVars,
                 cVars, nVars, prodVars, recovered, received, crashAt,
                 quar, atCrash, held, decoded, lost, gateAux, mode>>

\* cacheValue: c.cacheModified = true ; the deferred Unlock
RunModified ==
  /\ runpc = "cv2"
  /\ cacheModified' = TRUE
  /\ cacheLock' = ""
  /\ runv' = NIL
  /\ runpc' = "recv"
  /\ UNCHANGED <<fsVars, cfgVars, gateOpen, chanVars, runDone, hVars,
                 cacheR, cacheW, cacheReading, doneVars, cVars, nVars, prodVars, histVars, auxVars>>

\* c.runDone = true ; if c.cache
RunDone ==
  /\ runpc = "rd"
  /\ runDone' = TRUE
  /\ runpc' = IF cache THEN "w1" ELSE "close"
  /\ UNCHANGED <<fsVars, cfgVars, gateOpen, chanVars, runv, hVars, fileVars, doneVars,
                 cVars, nVars, prodVars, histVars, auxVars>>

\* "for c.CacheHasData() && !c.cacheCommitted { Sleep }": the three fields are
\* read one after the other, without the lock
\* (faulty variant: run does not wait for the cache to drain)
RunWaitBad ==
  /\ runpc \in {"w1", "w2", "w3"}
  /\ runpc' = "fin"
  /\ UNCHANGED <<fsVars, cfgVars, gateOpen, chanVars, runv, runDone, hVars, fileVars, doneVars,
                 cVars, nVars, prodVars, histVars, auxVars>>

RunWait ==
  /\ runpc \in {"w1", "w2", "w3"}
  /\ runpc' = CASE runpc = "w1" -> (IF cacheModified THEN "w3" ELSE "w2")
                [] runpc = "w2" -> (IF cacheReading THEN "w3" ELSE "fin")
                [] runpc = "w3" -> (IF cacheCommitted THEN "fin" ELSE "w1")
  /\ UNCHANGED <<fsVars, cfgVars, gateOpen, chanVars, runv, runDone, hVars, fileVars, doneVars,
                 cVars, nVars, prodVars, histVars, auxVars>>

\* finishCache(), called by run and by Commit
\* (faulty variant: cacheIsDone is not set)
finishCacheBad ==
  /\ cacheLock = ""
  /\ cacheDone' = TRUE
  /\ UNCHANGED <<cacheIsDone, cacheAck, cacheCommitted, filesClosed>>

finishCache ==
  /\ cacheLock = ""
  /\ cacheDone' = (IF ~cacheIsDone THEN TRUE ELSE cacheDone)
  /\ cacheIsDone' = TRUE
  /\ UNCHANGED <<cacheAck, cacheCommitted, filesClosed>>

\* c.finishCache() in run
RunFinish ==
  /\ runpc = "fin"
  /\ finishCache
  /\ runpc' = "ack"
  /\ UNCHANGED <<fsVars, cfgVars, gateOpen, chanVars, runv, runDone, hVars, fileVars,
                 cVars, nVars, prodVars, histVars, auxVars>>

\* <-c.cacheAck
\* (faulty variant: run does not wait for the acknowledgment)
RunAckBad ==
  /\ runpc = "ack"
  /\ runpc' = "unlock"
  /\ UNCHANGED <<fsVars, cfgVars, gateOpen, chanVars, runv, runDone, hVars, fileVars, doneVars,
                 cVars, nVars, prodVars, histVars, auxVars>>

RunAck ==
  /\ runpc = "ack"
  /\ cacheAck
  /\ runpc' = "unlock"
  /\ UNCHANGED <<fsVars, cfgVars, gateOpen, chanVars, runv, runDone, hVars, fileVars, doneVars,
                 cVars, nVars, prodVars, histVars, auxVars>>

\* c.fileLock.Unlock(): releases the flock if this pipeline holds it
UnlockBad(owner) == owner
Unlock(owner) == IF owner = gen THEN 0 ELSE owner

\* c.fileLock.Unlock() in run
RunUnlock ==
  /\ runpc = "unlock"
  /\ lockOwner' = Unlock(lockOwner)
  /\ runpc' = "close"
  /\ UNCHANGED <<names, disk, cfgVars, gateOpen, chanVars, runv, runDone, hVars, fileVars, doneVars,
                 cVars, nVars, prodVars, histVars, auxVars>>

\* close(c.Out)
RunClose ==
  /\ runpc = "close"
  /\ outClosed' = TRUE
  /\ runpc' = "done"
  /\ UNCHANGED <<fsVars, cfgVars, gateOpen, out, inClosed, runv, runDone, hVars, fileVars, doneVars,
                 cVars, nVars, prodVars, histVars, auxVars>>

RunRecv == RunRecvOf(MaxSend)

\* run, after it has received a value or found In closed
runBody ==
  \/ RunEnd \/ RunTry \/ RunSendOut \/ RunSelCache
  \/ RunCacheValue \/ RunEncode \/ RunModified
  \/ RunDone \/ RunWait \/ RunFinish \/ RunAck \/ RunUnlock \/ RunClose

run == RunRecv \/ runBody

\* -------------------------------------------------------- cacheHandler
\* c.cacheReading = true (line 270)
HandlerStart ==
  /\ hpc = "h0"
  /\ cacheReading' = TRUE
  /\ hpc' = "dec"
  /\ UNCHANGED <<fsVars, cfgVars, gateOpen, chanVars, runVars, hv, rpos,
                 cacheR, cacheW, cacheModified, cacheLock, doneVars, cVars, nVars, prodVars, histVars, auxVars>>

\* err = dec.Decode(&v): the next record of cacheR, or io.EOF; nil is
\* skipped; any other error ends the loop as io.EOF does
\* (faulty variant: a record that does not decode is skipped and the loop
\* goes on)
HandlerDecodeBad ==
  /\ hpc = "dec"
  /\ IF rpos < Len(disk[cacheR])
       THEN /\ hv' = disk[cacheR][rpos + 1]
            /\ rpos' = rpos + 1
            /\ hpc' = IF disk[cacheR][rpos + 1] \in {NIL, CORRUPT} THEN "dec" ELSE "push"
       ELSE hpc' = "eof" /\ UNCHANGED <<hv, rpos>>
  /\ decoded' = (IF rpos < Len(disk[cacheR]) /\ disk[cacheR][rpos + 1] # CORRUPT
                   THEN Append(decoded, disk[cacheR][rpos + 1]) ELSE decoded)
  /\ lost' = (IF rpos < Len(disk[cacheR]) /\ disk[cacheR][rpos + 1] = CORRUPT
                THEN lost \cup (Range(Drop(disk[cacheR], rpos)) \ {CORRUPT}) ELSE lost)
  /\ UNCHANGED <<fsVars, cfgVars, gateOpen, chanVars, runVars, fileVars, doneVars,
                 cVars, nVars, prodVars, histVars, quar, atCrash, held, written, gateAux, mode>>

HandlerDecode ==
  /\ hpc = "dec"
  /\ IF rpos < Len(disk[cacheR]) /\ disk[cacheR][rpos + 1] # CORRUPT
       THEN /\ hv' = disk[cacheR][rpos + 1]
            /\ rpos' = rpos + 1
            /\ hpc' = IF disk[cacheR][rpos + 1] = NIL THEN "dec" ELSE "push"
       ELSE hpc' = "eof" /\ UNCHANGED <<hv, rpos>>
  /\ decoded' = (IF rpos < Len(disk[cacheR]) /\ disk[cacheR][rpos + 1] # CORRUPT
                   THEN Append(decoded, disk[cacheR][rpos + 1]) ELSE decoded)
  /\ lost' = (IF rpos < Len(disk[cacheR]) /\ disk[cacheR][rpos + 1] = CORRUPT
                THEN lost \cup (Range(Drop(disk[cacheR], rpos)) \ {CORRUPT}) ELSE lost)
  /\ UNCHANGED <<fsVars, cfgVars, gateOpen, chanVars, runVars, fileVars, doneVars,
                 cVars, nVars, prodVars, histVars, quar, atCrash, held, written, gateAux, mode>>

\* c.Out <- v (line 285)
HandlerPush ==
  /\ hpc = "push"
  /\ CanSend
  /\ out' = Append(out, hv)
  /\ hv' = NIL
  /\ hpc' = "dec"
  /\ UNCHANGED <<fsVars, cfgVars, gateOpen, outClosed, inClosed, runVars, rpos, fileVars, doneVars,
                 cVars, nVars, prodVars, histVars, auxVars>>

\* c.cacheReading = false (line 291)
HandlerEof ==
  /\ hpc = "eof"
  /\ cacheReading' = FALSE
  /\ hpc' = "trunc"
  /\ UNCHANGED <<fsVars, cfgVars, gateOpen, chanVars, runVars, hv, rpos,
                 cacheR, cacheW, cacheModified, cacheLock, doneVars, cVars, nVars, prodVars, histVars, auxVars>>

\* c.cacheR.Seek(0, 0) ; c.cacheR.Truncate(0)
\* (faulty variant: the reader file is rewound but not truncated)
HandlerTruncateBad ==
  /\ hpc = "trunc"
  /\ rpos' = 0
  /\ hpc' = "chk"
  /\ UNCHANGED <<fsVars, cfgVars, gateOpen, chanVars, runVars, hv, fileVars, doneVars,
                 cVars, nVars, prodVars, histVars, auxVars>>

HandlerTruncate ==
  /\ hpc = "trunc"
  /\ disk' = [disk EXCEPT ![cacheR] = <<>>]
  /\ rpos' = 0
  /\ hpc' = "chk"
  /\ UNCHANGED <<names, lockOwner, cfgVars, gateOpen, chanVars, runVars, hv, fileVars, doneVars,
                 cVars, nVars, prodVars, histVars, auxVars>>

\* select { case <-c.cacheDone: close(c.cacheAck); return; default: }
HandlerCheckDone ==
  /\ hpc = "chk"
  /\ IF cacheDone
       THEN cacheAck' = TRUE /\ hpc' = "done"
       ELSE hpc' = "wait" /\ UNCHANGED cacheAck
  /\ UNCHANGED <<fsVars, cfgVars, gateOpen, chanVars, runVars, hv, rpos, fileVars,
                 cacheDone, cacheIsDone, cacheCommitted, filesClosed, cVars, nVars, prodVars, histVars, auxVars>>

\* "for !c.cacheModified { select { case <-c.cacheDone: ...; case <-time.After } }"
\* (faulty variant: the waiting loop does not watch cacheDone)
HandlerWaitBad ==
  /\ hpc = "wait"
  /\ cacheModified
  /\ hpc' = "swap1"
  /\ UNCHANGED <<fsVars, cfgVars, gateOpen, chanVars, runVars, hv, rpos, fileVars,
                 doneVars, cVars, nVars, prodVars, histVars, auxVars>>

HandlerWait ==
  /\ hpc = "wait"
  /\ \/ /\ cacheModified
        /\ hpc' = "swap1"
        /\ UNCHANGED cacheAck
     \/ /\ ~cacheModified /\ cacheDone
        /\ cacheAck' = TRUE
        /\ hpc' = "done"
  /\ UNCHANGED <<fsVars, cfgVars, gateOpen, chanVars, runVars, hv, rpos, fileVars,
                 cacheDone, cacheIsDone, cacheCommitted, filesClosed, cVars, nVars, prodVars, histVars, auxVars>>

\* swap caches, lines 315-319: Lock ; cacheR, cacheW = cacheW, cacheR ;
\* cacheR.Seek(0, 0) ; new encoder ; cacheModified = false
\* (faulty variant: cacheModified is not reset)
HandlerSwapBad ==
  /\ hpc = "swap1"
  /\ cacheLock = ""
  /\ cacheLock' = "handler"
  /\ cacheR' = cacheW
  /\ cacheW' = cacheR
  /\ rpos' = 0
  /\ hpc' = "swap2"
  /\ UNCHANGED <<fsVars, cfgVars, gateOpen, chanVars, runVars, hv, cacheModified, cacheReading,
                 doneVars, cVars, nVars, prodVars, histVars, auxVars>>

HandlerSwap ==
  /\ hpc = "swap1"
  /\ cacheLock = ""
  /\ cacheLock' = "handler"
  /\ cacheR' = cacheW
  /\ cacheW' = cacheR
  /\ rpos' = 0
  /\ cacheModified' = FALSE
  /\ hpc' = "swap2"
  /\ UNCHANGED <<fsVars, cfgVars, gateOpen, chanVars, runVars, hv, cacheReading, doneVars,
                 cVars, nVars, prodVars, histVars, auxVars>>

\* swap caches, lines 320-321: cacheReading = true ; Unlock
HandlerSwapEnd ==
  /\ hpc = "swap2"
  /\ cacheReading' = TRUE
  /\ cacheLock' = ""
  /\ hpc' = "dec"
  /\ UNCHANGED <<fsVars, cfgVars, gateOpen, chanVars, runVars, hv, rpos,
                 cacheR, cacheW, cacheModified, doneVars, cVars, nVars, prodVars, histVars, auxVars>>

cacheHandler ==
  \/ HandlerStart \/ HandlerDecode \/ HandlerPush \/ HandlerEof \/ HandlerTruncate
  \/ HandlerCheckDone \/ HandlerWait \/ HandlerSwap \/ HandlerSwapEnd

\* ------------------------------------------------------------ consumer
\* v := <-c.Out by the consumer
ConsumerRecv ==
  /\ gen > 0
  /\ Len(out) > 0
  /\ received' = Append(received, Head(out))
  /\ out' = Tail(out)
  /\ UNCHANGED <<fsVars, cfgVars, gateOpen, outClosed, inClosed, runVars, hVars, fileVars, doneVars,
                 cVars, nVars, prodVars, recovered, spilled, crashAt, auxVars>>

\* -------------------------------------------------------------- Commit
\* Commit() is called; "if !c.cache { c.cacheCommitted = true; return }"
CommitCall ==
  /\ gen > 0 /\ cpc = "idle" /\ runpc # "dead"
  /\ IF cache
       THEN cpc' = "cfin" /\ UNCHANGED cacheCommitted
       ELSE cpc' = "done" /\ cacheCommitted' = TRUE
  /\ UNCHANGED <<fsVars, cfgVars, gateOpen, chanVars, runVars, hVars, fileVars,
                 cacheDone, cacheAck, cacheIsDone, filesClosed, cv, readerStopped,
                 nVars, prodVars, histVars, auxVars>>

\* c.finishCache() in Commit
CommitFinish ==
  /\ cpc = "cfin"
  /\ finishCache
  /\ cpc' = "cloop"
  /\ UNCHANGED <<fsVars, cfgVars, gateOpen, chanVars, runVars, hVars, fileVars,
                 cv, readerStopped, nVars, prodVars, histVars, auxVars>>

\* the loop condition: !c.runDone || len(c.Out) != 0 || !readerStopped
\* (faulty variant: the length of Out is not tested)
CommitMoreBad == ~runDone \/ ~readerStopped
\* (faulty variant: runDone is not tested)
CommitMoreNoRun == Len(out) # 0 \/ ~readerStopped
CommitMore == ~runDone \/ Len(out) # 0 \/ ~readerStopped

\* "for !c.runDone || len(c.Out) != 0 || !readerStopped"
CommitLoop ==
  /\ cpc = "cloop"
  /\ cpc' = IF CommitMore THEN "csel" ELSE "csync"
  /\ UNCHANGED <<fsVars, cfgVars, gateOpen, chanVars, runVars, hVars, fileVars, doneVars,
                 cv, readerStopped, nVars, prodVars, histVars, auxVars>>

\* select: case <-c.cacheAck: readerStopped = true
CommitSelAck ==
  /\ cpc = "csel"
  /\ cacheAck
  /\ readerStopped' = TRUE
  /\ cpc' = "cloop"
  /\ UNCHANGED <<fsVars, cfgVars, gateOpen, chanVars, runVars, hVars, fileVars, doneVars,
                 cv, nVars, prodVars, histVars, auxVars>>

\* select: case v := <-c.Out (nil once Out is closed and empty)
CommitSelOut ==
  /\ cpc = "csel"
  /\ \/ /\ Len(out) > 0
        /\ cv' = Head(out)
        /\ out' = Tail(out)
        /\ cpc' = "ccv"
     \/ /\ Len(out) = 0 /\ outClosed
        /\ cpc' = "cloop"
        /\ UNCHANGED <<cv, out>>
  /\ UNCHANGED <<fsVars, cfgVars, gateOpen, outClosed, inClosed, runVars, hVars, fileVars, doneVars,
                 readerStopped, nVars, prodVars, histVars, auxVars>>

\* "if v != nil { c.cacheValue(v) }": the nil test and the budget wait
CommitCacheValue ==
  /\ cpc = "ccv"
  /\ IF cv = NIL
       THEN cpc' = "cloop"
       ELSE /\ ~(maxSize # 0 /\ Size >= maxSize)
            /\ cpc' = "ccv1"
  /\ UNCHANGED <<fsVars, cfgVars, gateOpen, chanVars, runVars, hVars, fileVars, doneVars,
                 cv, readerStopped, nVars, prodVars, histVars, auxVars>>

\* cacheValue in Commit: Lock ; c.cacheEnc.Encode(&v)
CommitEncode ==
  /\ cpc = "ccv1"
  /\ cacheLock = ""
  /\ cacheLock' = "commit"
  /\ IF filesClosed THEN UNCHANGED disk
     ELSE disk' = [disk EXCEPT ![cacheW] = Encode(@, cv)]
  /\ spilled' = IF filesClosed THEN spilled ELSE spilled \cup {cv}
  /\ written' = IF filesClosed THEN written ELSE Append(written, cv)
  /\ cpc' = "ccv2"
  /\ UNCHANGED <<names, lockOwner, cfgVars, gateOpen, chanVars, runVars, hVars,
                 cacheR, cacheW, cacheModified, cacheReading, doneVars,
                 cv, readerStopped, nVars, prodVars, recovered, received, crashAt,
                 quar, atCrash, held, decoded, lost, gateAux, mode>>

\* cacheValue in Commit: c.cacheModified = true ; Unlock
CommitModified ==
  /\ cpc = "ccv2"
  /\ cacheModified' = TRUE
  /\ cacheLock' = ""
  /\ cv' = NIL
  /\ cpc' = "cloop"
  /\ UNCHANGED <<fsVars, cfgVars, gateOpen, chanVars, runVars, hVars,
                 cacheR, cacheW, cacheReading, doneVars, readerStopped, nVars, prodVars, histVars, auxVars>>

\* c.cacheR.Sync() ; c.cacheW.Sync() ; c.cacheR.Close() ; c.cacheW.Close()
CommitClose ==
  /\ cpc = "csync"
  /\ filesClosed' = TRUE
  /\ cpc' = "cunlock"
  /\ UNCHANGED <<fsVars, cfgVars, gateOpen, chanVars, runVars, hVars, fileVars,
                 cacheDone, cacheAck, cacheIsDone, cacheCommitted,
                 cv, readerStopped, nVars, prodVars, histVars, auxVars>>

\* "if c.fileLock != nil { c.fileLock.Unlock() }"
CommitUnlock ==
  /\ cpc = "cunlock"
  /\ lockOwner' = Unlock(lockOwner)
  /\ cpc' = "cset"
  /\ UNCHANGED <<names, disk, cfgVars, gateOpen, chanVars, runVars, hVars, fileVars, doneVars,
                 cv, readerStopped, nVars, prodVars, histVars, auxVars>>

\* c.cacheCommitted = true ; return
CommitReturn ==
  /\ cpc = "cset"
  /\ cacheCommitted' = TRUE
  /\ cpc' = "done"
  /\ UNCHANGED <<fsVars, cfgVars, gateOpen, chanVars, runVars, hVars, fileVars,
                 cacheDone, cacheAck, cacheIsDone, filesClosed,
                 cv, readerStopped, nVars, prodVars, histVars, auxVars>>

Commit ==
  \/ CommitFinish \/ CommitLoop \/ CommitSelAck \/ CommitSelOut
  \/ CommitCacheValue \/ CommitEncode \/ CommitModified
  \/ CommitClose \/ CommitUnlock \/ CommitReturn

\* ------------------------------------------------------------ the gate
\* run waits in its second select: Out is full and the channel cachePaused
\* it waits on is open (the cache was stopped when run entered the select)
Blocked == cache /\ ~runGate /\ runpc = "sel" /\ Len(out) >= Depth

\* the select of CacheStart takes its default case, close(c.cachePaused),
\* when nothing can be received from the channel: it is not closed
\* (faulty variant: the channel is closed without the test)
StartClosesAlways(closed) == TRUE
StartCloses(closed) == ~closed

\* CacheStart(): under cacheLock, close(c.cachePaused) unless it is closed;
\* returns at once without cache (closing a channel that is closed panics:
\* crashAt records it)
CacheStart ==
  /\ gen > 0 /\ runpc # "dead"
  /\ cache => cacheLock = ""
  /\ gateOpen' = (IF cache THEN TRUE ELSE gateOpen)
  /\ crashAt' = (IF cache /\ StartCloses(gateOpen) /\ gateOpen THEN "panic" ELSE crashAt)
  /\ held' = (IF Blocked THEN runv ELSE held)
  /\ runGate' = (IF cache /\ runpc = "sel" THEN TRUE ELSE runGate)
  /\ lastGate' = "start"
  /\ UNCHANGED <<fsVars, cfgVars, chanVars, runVars, hVars, fileVars, doneVars,
                 cVars, nVars, prodVars, recovered, received, spilled, quar, atCrash, ioAux, mode>>

\* CacheStop(): under cacheLock, c.cachePaused = make(chan bool) if it is
\* closed; returns at once without cache
CacheStop ==
  /\ gen > 0 /\ runpc # "dead"
  /\ cache => cacheLock = ""
  /\ gateOpen' = (IF cache THEN FALSE ELSE gateOpen)
  /\ lastGate' = "stop"
  /\ UNCHANGED <<fsVars, cfgVars, chanVars, runVars, hVars, fileVars, doneVars,
                 cVars, nVars, prodVars, histVars, quar, atCrash, held, ioAux, runGate, mode>>

\* ------------------------------------------------------- initial states
\* the cache files a directory can hold before the first construction
\* (left by an earlier process): values 1 and 2 in cache_a, 3 in cache_b
InitFiles == {<<a, b>> : a \in {<<>>, <<1>>, <<1, 2>>}, b \in {<<>>, <<3>>}}
\* the producer's values follow the recovered values 1..3
FirstVal == 3 + 1

\* the fields of a pipeline whose goroutines have not started
NoPipeline ==
  /\ out = <<>> /\ outClosed = FALSE /\ inClosed = FALSE
  /\ runv = NIL /\ runDone = FALSE
  /\ hv = NIL /\ rpos = 0
  /\ cacheModified = FALSE /\ cacheReading = FALSE /\ cacheLock = ""
  /\ cacheDone = FALSE /\ cacheAck = FALSE /\ cacheIsDone = FALSE
  /\ cacheCommitted = FALSE /\ filesClosed = FALSE
  /\ cpc = "idle" /\ cv = NIL /\ readerStopped = FALSE
  /\ gateOpen = TRUE
  /\ sizeR = 0 /\ sizeW = 0 /\ fa = 0 /\ fb = 0 /\ ft = 0 /\ nR = 0 /\ nW = 0
  /\ nMod = FALSE /\ nres = "none" /\ snap = <<names["cache_a"], names["cache_b"]>>
  /\ nextVal = FirstVal /\ nsent = 0 /\ sent = <<>>
  /\ received = <<>> /\ spilled = {} /\ crashAt = ""
  /\ quar = [n \in {"cache_a", "cache_b"} |-> {}]
  /\ atCrash = <<>> /\ held = NIL
  /\ decoded = <<>> /\ written = <<>> /\ lost = {}
  /\ runGate = TRUE /\ lastGate = "none" /\ mode = "file"

\* a directory holding cache_a and cache_b, and a call of NewChanCacher on it
InitCached(files, budget, isFinal) ==
  /\ names = [n \in {"cache_a", "cache_b", "merge"} |->
                IF n = "cache_a" THEN 1 ELSE IF n = "cache_b" THEN 2 ELSE 0]
  /\ disk = <<files[1], files[2]>>
  /\ recovered = files[1] \o files[2]
  /\ lockOwner = 0
  /\ gen = 0 /\ cache = TRUE /\ maxSize = budget
  /\ runpc = "off" /\ hpc = "off"
  /\ cacheR = 1 /\ cacheW = 2
  /\ npc = "clean" /\ nid = 1 /\ final = isFinal
  /\ NoPipeline

\* NewChanCacher(Depth, "", 0, lgr) has returned: no cache, run is started
InitNoCache ==
  /\ names = [n \in {"cache_a", "cache_b", "merge"} |-> 0]
  /\ disk = <<<<>>, <<>>>>
  /\ recovered = <<>>
  /\ lockOwner = 0
  /\ gen = 1 /\ cache = FALSE /\ maxSize = 0
  /\ runpc = "recv" /\ hpc = "off"
  /\ cacheR = 1 /\ cacheW = 2
  /\ npc = "idle" /\ nid = 1 /\ final = TRUE
  /\ NoPipeline

\* ---------------------------------------------------------------- Spec
\* one pipeline with a cache directory and no disk budget, a producer and a
\* consumer; Commit is not called and the process does not crash
Init == \E files \in InitFiles : InitCached(files, 0, TRUE)

Next == NewChanCacher \/ run \/ cacheHandler \/ CloseIn \/ ConsumerRecv

Spec == Init /\ [][Next]_vars

\* the same pipeline under fair scheduling of its goroutines and a consumer
\* that keeps receiving; with or without a cache, with or without a budget
Budget == 1

InitLive ==
  \/ \E files \in InitFiles, budget \in {0, Budget} : InitCached(files, budget, TRUE)
  \/ InitNoCache

SpecLive == InitLive /\ [][Next]_vars
            /\ WF_vars(NewChanCacher) /\ WF_vars(run) /\ WF_vars(cacheHandler)
            /\ WF_vars(ConsumerRecv)

\* --------------------------------------------------------- SpecCycle
\* consecutive cycles on one directory, as in TestRecover and
\* TestCycleConnection: construct, send with no consumer, close In, Commit,
\* wait for Out closed; then a final pipeline that a consumer reads; the
\* directory is empty at first, or holds what a killed process left
InitCycle ==
  \E files \in {<<<<>>, <<>>>>, <<<<1>>, <<3>>>>}, isFinal \in {TRUE, FALSE} :
    InitCached(files, 0, isFinal)

\* the next NewChanCacher of the test, after Commit returned and <-c.Out
CycleNew ==
  /\ gen >= 1 /\ gen <= MaxCycles /\ ~final
  /\ cpc = "done" /\ outClosed /\ runpc = "done"
  /\ \E isFinal \in {TRUE, FALSE} : (gen = MaxCycles => isFinal) /\ NewCall(isFinal)
  /\ UNCHANGED <<fsVars, cfgVars, gateOpen, chanVars, runVars, hVars, fileVars, doneVars,
                 cVars, prodVars, histVars, auxVars>>

\* close(c.In) ; c.Commit() of a cycle
CycleCommit == ~final /\ inClosed /\ CommitCall

\* the consumer of the final pipeline
CycleConsume == final /\ ConsumerRecv

\* the producer sends up to CycleSend values in a cycle and none to the
\* final pipeline
CycleSend == 1
CycleRun == run /\ nsent' <= (IF final THEN 0 ELSE CycleSend)

NextCycle ==
  \/ NewChanCacher \/ CycleRun \/ cacheHandler \/ CloseIn
  \/ CycleCommit \/ Commit \/ CycleNew \/ CycleConsume

SpecCycle == InitCycle /\ [][NextCycle]_vars


\* ---------------------------------------------------------- SpecLock
\* a pipeline on a directory, and further calls of NewChanCacher on the same
\* directory at any moment (TestFlock), with or without Commit
\* the goroutines of at most MaxLockGen pipelines get to run
MaxLockGen == 1
LockNew == NewChanCacher /\ gen' <= MaxLockGen

ContenderNew ==
  /\ gen >= 1 /\ gen <= MaxLockGen
  /\ NewCall(TRUE)
  /\ UNCHANGED <<fsVars, cfgVars, gateOpen, chanVars, runVars, hVars, fileVars, doneVars,
                 cVars, prodVars, histVars, auxVars>>

InitLock == InitCached(<<<<1>>, <<>>>>, 0, TRUE)

\* the producer of this scenario sends MaxLockSend values in all
MaxLockSend == 1
LockRun == run /\ Len(sent') <= MaxLockSend

NextLock ==
  \/ LockNew \/ LockRun \/ cacheHandler \/ CloseIn \/ ConsumerRecv
  \/ CommitCall \/ Commit \/ ContenderNew

SpecLock == InitLock /\ [][NextLock]_vars

\* --------------------------------------------------------- SpecCrash
\* the process is killed (once), at any step of NewChanCacher or of the
\* pipeline; what is in memory is gone, the flock is released, the directory
\* stays as it is; a new process then calls NewChanCacher on the directory
Crash ==
  /\ crashAt = ""
  /\ atCrash' = <<Content("cache_a") \o Content("cache_b"), Len(received)>>
  /\ crashAt' = IF npc \in {"idle", "go"} THEN "run" ELSE npc
  /\ lockOwner' = 0
  /\ runpc' = (IF gen = 0 THEN runpc ELSE "dead")
  /\ hpc' = (IF gen = 0 THEN hpc ELSE "dead")
  /\ cpc' = (IF gen = 0 THEN cpc ELSE "dead")
  /\ out' = <<>> /\ runv' = NIL /\ hv' = NIL /\ cv' = NIL
  /\ cacheLock' = ""
  /\ npc' = "clean" /\ nid' = gen + 1 /\ nres' = "none" /\ final' = TRUE
  /\ snap' = <<names["cache_a"], names["cache_b"]>>
  /\ sizeR' = 0 /\ sizeW' = 0 /\ fa' = 0 /\ fb' = 0 /\ ft' = 0
  /\ UNCHANGED <<names, disk, cfgVars, gateOpen, outClosed, inClosed, runDone, rpos,
                 cacheR, cacheW, cacheModified, cacheReading, doneVars, readerStopped,
                 nR, nW, nMod, prodVars, recovered, received, spilled, quar, held,
                 ioAux, gateAux, mode>>

InitCrash == \E files \in InitFiles : InitCached(files, 0, TRUE)

\* the producer sends MaxSend values in all, before and after the kill
CrashRun == run /\ Len(sent') <= MaxSend

NextCrash == NewChanCacher \/ CrashRun \/ cacheHandler \/ CloseIn \/ ConsumerRecv \/ Crash

SpecCrash == InitCrash /\ [][NextCrash]_vars

\* --------------------------------------------------------- SpecCommit
\* teardown with nobody reading Out (TestCommit): values are sent, the gate
\* may be stopped and started, In is closed and then Commit is called; with
\* a disk budget of Budget bytes or none
InitCommit ==
  \E files \in {<<<<>>, <<>>>>, <<<<1>>, <<3>>>>}, budget \in {0, Budget} :
    InitCached(files, budget, FALSE)

\* close(c.In) ; c.Commit()
CommitAfterClose == inClosed /\ CommitCall

NextCommit ==
  \/ NewChanCacher \/ run \/ cacheHandler \/ CloseIn
  \/ CommitAfterClose \/ Commit \/ CacheStop \/ CacheStart

SpecCommit == InitCommit /\ [][NextCommit]_vars

\* the goroutines and the caller of Commit are scheduled fairly, and a select
\* with several ready cases picks each of them in the long run
SpecCommitLive ==
  /\ SpecCommit
  /\ WF_vars(NewChanCacher) /\ WF_vars(run) /\ WF_vars(cacheHandler) /\ WF_vars(Commit)
  /\ SF_vars(CommitSelOut) /\ SF_vars(CommitSelAck)
  /\ SF_vars(RunSendOut) /\ SF_vars(RunSelCache)

\* ----------------------------------------------------------- SpecGate
\* a pipeline without cache (TestBlockDepth) or with a cache, on a directory
\* empty or left with data, whose gate is stopped and started at any moment
\* (TestCacheStartStop); the pipeline gets Depth + 3 values in all, the
\* consumer receives when it wants
InitGate ==
  \/ InitNoCache
  \/ \E files \in {<<<<>>, <<>>>>, <<<<1>>, <<3>>>>} : InitCached(files, 0, TRUE)

\* enough values to fill Out and the hand of run, and two more, the values
\* found in the directory included
GateRecv == RunRecvOf(Depth + 3 - Len(recovered))

NextGate ==
  \/ NewChanCacher \/ GateRecv \/ runBody \/ cacheHandler \/ CloseIn \/ ConsumerRecv
  \/ CacheStop \/ CacheStart

SpecGate == InitGate /\ [][NextGate]_vars

\* run is scheduled and the producer keeps offering its values
SpecGateLive == SpecGate /\ WF_vars(GateRecv) /\ WF_vars(runBody)

\* -------------------------------------------------------- SpecCorrupt
\* the directory holds what an earlier process left, and bytes that do not
\* decode were written into cache_a or cache_b (as in Test_validateCache:
\* "notvalid"), alone or after a valid record
CorruptFiles ==
  {<<a, b>> : a \in {<<>>, <<1>>, <<CORRUPT>>, <<1, CORRUPT>>},
              b \in {<<>>, <<3>>, <<CORRUPT>>}}

InitCorrupt == \E files \in CorruptFiles : InitCached(files, 0, TRUE)

NextCorrupt == NewChanCacher \/ run \/ cacheHandler \/ CloseIn \/ ConsumerRecv

SpecCorrupt == InitCorrupt /\ [][NextCorrupt]_vars

\* ------------------------------------------------------------- claims
\* the value run holds and has not yet put on Out or into the writer file
RunHand == IF runv # NIL /\ runpc # "cv2" THEN <<runv>> ELSE <<>>
\* the value cacheHandler has decoded and not yet put on Out
HandlerHand == IF hpc = "push" THEN <<hv>> ELSE <<>>
\* the records of the two open files that have not been decoded yet
OnDisk == Drop(disk[cacheR], rpos) \o disk[cacheW]
\* every value the pipeline has accepted, from In or from the directory
Accepted == recovered \o sent
\* the values the producer sent, as they appear in the received sequence
IsSent(v) == v >= FirstVal

\* C1: with spilling enabled, no budget, no Commit and no crash, every value
\* accepted by the pipeline is, at every moment, at exactly one place (in the
\* hands of run or of cacheHandler, in the Out buffer, undecoded in a cache
\* file, or received by the consumer): no value is lost and none is received
\* twice.
C1_ExactlyOnce ==
  gen = 1 =>
    /\ SeqToBag(received \o out \o RunHand \o HandlerHand \o OnDisk) = SeqToBag(Accepted)
    /\ NoDup(received)

\* C1 witness: all the values sent were received, some of them via the disk
C1_Witness ==
  /\ gen = 1 /\ nsent = MaxSend /\ spilled # {}
  /\ Range(received) = Range(Accepted)

\* C2 (as stated): the values sent on In are received in the order sent.
C2_InOrder ==
  \A i, j \in 1..Len(received) :
    (i < j /\ IsSent(received[i]) /\ IsSent(received[j])) => received[i] < received[j]

\* C2 (amended): the values that went through the disk are received in the
\* order sent, and so are the values that were put on Out directly; a value
\* sent later and put on Out directly may overtake a spilled one.
C2_InOrderPerPath ==
  \A i, j \in 1..Len(received) :
    (/\ i < j /\ IsSent(received[i]) /\ IsSent(received[j])
     /\ (received[i] \in spilled) = (received[j] \in spilled))
    => received[i] < received[j]

\* C2 witness: two spilled values have been received
C2_Witness ==
  \E i, j \in 1..Len(received) :
    i < j /\ received[i] \in spilled /\ received[j] \in spilled

\* C3: when Out is closed (In closed, Commit never called), every value
\* accepted from In or recovered from the directory is in the Out buffer or
\* has been received.
C3_ClosedAfterAll ==
  outClosed => SeqToBag(received \o out) = SeqToBag(Accepted)

\* C3 witness: Out is closed after values were spilled and values recovered
C3_Witness ==
  /\ outClosed /\ spilled # {} /\ recovered # <<>> /\ out = <<>>
  /\ Len(received) = Len(Accepted)

\* C4: once In is closed, Out is eventually closed (fair scheduling, a
\* consumer that keeps receiving), with or without cache and budget.
C4_EventuallyClosed == (gen = 1 /\ inClosed) ~> outClosed

\* C4 witness: Out closed by a pipeline with a disk budget that spilled
C4_Witness == outClosed /\ maxSize # 0 /\ spilled # {} /\ inClosed

\* the records under the two file names
OnNames == Content("cache_a") \o Content("cache_b")

\* C5: one cycle (send with no consumer, close In, Commit), then a new
\* pipeline on the directory that gets no input: once that pipeline has
\* drained its files and the consumer has emptied Out, the consumer has
\* received each value sent in the cycle exactly once.
C5_RecoverAll ==
  (/\ gen = 2 /\ final /\ npc = "idle" /\ nsent = 0
   /\ hpc \in {"wait", "done"} /\ out = <<>>)
  => SeqToBag(received) = SeqToBag(Accepted)

\* C5 witness: the second pipeline delivered MaxSend values, some of which
\* Commit took from the Out buffer
C5_Witness ==
  /\ gen = 2 /\ final /\ nsent = 0 /\ hpc = "wait" /\ out = <<>>
  /\ Len(received) = CycleSend /\ Len(sent) = CycleSend /\ recovered = <<>>

\* C6: for any number of such cycles, whenever a Commit has returned every
\* value sent so far is exactly once in cache_a or cache_b, and the final
\* pipeline holds or has delivered every value exactly once.
C6_CyclesKeepAll ==
  /\ (gen >= 1 /\ ~final /\ cpc = "done") => SeqToBag(OnNames) = SeqToBag(Accepted)
  /\ (gen >= 1 /\ final /\ npc = "idle") =>
       /\ SeqToBag(received \o out \o RunHand \o HandlerHand \o OnDisk) = SeqToBag(Accepted)
       /\ NoDup(received)

\* C6 witness: a second cycle's Commit has returned while the first cycle's
\* values were recovered, and the final pipeline later delivered all of them
C6_Witness ==
  /\ gen = 3 /\ final /\ Len(sent) = 2 * CycleSend /\ recovered # <<>>
  /\ Range(received) = Range(Accepted) /\ nsent = 0

\* a NewChanCacher call has acquired the directory lock for a new pipeline
OtherConstructed == gen >= 1 /\ npc \in {"open", "go"}

\* C7 (as stated): while the pipeline is live (Out not closed, Commit not
\* returned), no other NewChanCacher call on the directory succeeds.
C7_ExclusiveWhileLive ==
  (gen >= 1 /\ ~outClosed /\ cpc # "done") => ~OtherConstructed

\* C7 (amended): from construction until run or Commit calls
\* fileLock.Unlock (just before Out is closed, just before Commit returns),
\* no other NewChanCacher call on the directory succeeds.
C7_ExclusiveUntilUnlock ==
  (gen >= 1 /\ runpc \notin {"close", "done"} /\ cpc \notin {"cset", "done"})
  => ~OtherConstructed

\* C7 witness: a call was refused for the lock while the pipeline had not
\* unlocked
C7_Witness ==
  /\ gen = 1 /\ runpc \notin {"close", "done"} /\ cpc \notin {"cset", "done"}
  /\ nres = "locked"

\* C8: a NewChanCacher call refused for the lock leaves the names cache_a and
\* cache_b on the files they designated when the call began.
C8_RefusedCallChangesNothing ==
  nres = "locked" => <<names["cache_a"], names["cache_b"]>> = snap

\* cache_a and cache_b both held data before the first construction
BothAtStart == 1 \in Range(recovered) /\ 3 \in Range(recovered)

\* C9: when cache_a and cache_b are both non-empty at construction, the
\* constructor returns with cache_a holding the values of cache_a followed by
\* those of cache_b and with an empty cache_b, and the pipeline, given no
\* input, delivers exactly these values, each once.
C9_MergeResult ==
  (BothAtStart /\ crashAt = "") =>
    /\ (gen = 0 /\ npc = "go") =>
         /\ Content("cache_a") = recovered
         /\ names["cache_b"] # 0 /\ Content("cache_b") = <<>>
         /\ names["merge"] = 0
    /\ (gen = 1 /\ nsent = 0 /\ hpc \in {"wait", "done"} /\ out = <<>>) =>
         received = recovered

\* C9 witness: the pipeline built on two non-empty files has delivered the
\* three values
C9_Witness ==
  /\ BothAtStart /\ gen = 1 /\ nsent = 0 /\ Len(recovered) = 3
  /\ received = recovered

\* the steps of merge
MergeSteps == {"m_open", "m_copyA", "m_copyB", "m_rmA", "m_rmB", "m_rename"}

\* C10: if the process is killed at any step of the merge and a pipeline is
\* constructed again on the directory, every value that was in cache_a or
\* cache_b is delivered by that pipeline.
C10_MergeCrashKeepsAll ==
  (/\ crashAt \in MergeSteps /\ gen = 1 /\ nsent = 0
   /\ hpc \in {"wait", "done"} /\ out = <<>>)
  => Range(recovered) \subseteq Range(received)

\* the process was killed outside merge and the pipeline constructed next has
\* drained the files it found
DrainedAfterCrash ==
  /\ crashAt \notin MergeSteps \cup {""}
  /\ npc = "idle" /\ runpc # "dead" /\ hpc \in {"wait", "done"} /\ out = <<>>

CorruptAtCall(name) == ~DecodesToEOF(disk[IF name = "cache_a" THEN 1 ELSE 2])
InodeAtCall(name) == IF name = "cache_a" THEN 1 ELSE 2

\* C12: if cache_a or cache_b holds non-decodable bytes when NewChanCacher is
\* called, the call does not fail, and when it returns the corrupted file is
\* quarantine/<its name>.1 and a fresh empty file has its name.
C12_CorruptQuarantined ==
  \A name \in {"cache_a", "cache_b"} :
    (gen = 0 /\ CorruptAtCall(name)) =>
      /\ nres # "err"
      /\ npc = "go" =>
           /\ <<Itoa(1), InodeAtCall(name)>> \in quar[name]
           /\ names[name] \notin {0, 1, 2}
           /\ Content(name) = <<>>

\* a record is appended to the writer file in this step
Appended == Len(disk'[cacheW]) > Len(disk[cacheW])

\* C13: with a disk budget maxSize > 0, run and Commit append a value to the
\* writer file only at a moment when Size() < maxSize.
C13_AppendBelowBudget == [][(maxSize # 0 /\ Appended) => Size < maxSize]_vars

\* C14: once In is closed, a call of Commit returns, whatever the buffer
\* holds, whether the gate is stopped or not, with or without a disk budget,
\* and with nobody reading Out.
C14_CommitReturns == (inClosed /\ cpc # "idle") ~> (cpc = "done")

\* the pipeline without cache is running
NoCachePipe == gen = 1 /\ ~cache

\* C15 (as stated): without cache, with Out of capacity Depth, the send
\* number Depth + 1 does not complete before a value is received from Out,
\* nor the next one: at most Depth sends complete more than values received.
C15_SendKPlus1Blocks == NoCachePipe => nsent <= Len(received) + Depth

\* C15 (amended): run holds one value beyond the buffer, so the send number
\* Depth + 2 does not complete before one value is received from Out, nor
\* the send number Depth + 3 before two are.
C15_SendKPlus2Blocks == NoCachePipe => nsent <= Len(received) + Depth + 1

\* C15 witness: the send number Depth + 3 completed after two values were
\* received, and run is blocked with it on a full Out
C15_Witness ==
  /\ NoCachePipe /\ nsent = Depth + 3 /\ Len(received) = 2
  /\ runpc = "block" /\ Len(out) = Depth

\* C16: without cache and with nobody receiving, Depth + 1 sends complete
\* and no more: when run blocks, BufferSize() is Depth and run holds one
\* value; once a value has been received the next send completes.
C16_ExactlyKPlus1 ==
  /\ [](NoCachePipe =>
          /\ received = <<>> => nsent <= Depth + 1
          /\ (received = <<>> /\ nsent = Depth + 1 /\ runpc # "try") =>
               (Len(out) = Depth /\ runpc = "block" /\ runv # NIL))
  /\ (NoCachePipe /\ ~inClosed /\ Len(received) = 1) ~> (nsent >= Depth + 2 \/ inClosed)

\* C16 witness: the send number Depth + 2 completed after one value was
\* received, and run is blocked again
C16_Witness ==
  /\ NoCachePipe /\ Len(received) = 1 /\ nsent = Depth + 2
  /\ runpc = "block" /\ Len(out) = Depth

\* a record is appended to some file in this step
AppendedAny == \E i \in 1..Len(disk) : Len(disk'[i]) > Len(disk[i])

\* C17: from the return of CacheStop to the call of CacheStart (the gate is
\* stopped before and after the step), no value is appended to a cache file.
C17_NoAppendWhileStopped ==
  [][(gen = 1 /\ cache /\ ~gateOpen /\ ~gateOpen') => ~AppendedAny]_vars

\* the pipeline with cache holds nothing any more: all it accepted went out
Drained ==
  /\ gen = 1 /\ cache /\ runv = NIL /\ HandlerHand = <<>> /\ OnDisk = <<>> /\ out = <<>>

\* C18: while the gate is stopped and Out is full, run waits in its select
\* with one value: until a value is received from Out or CacheStart is
\* called, it keeps that value, writes nothing and no further send
\* completes; the values accepted, the held one included, are received
\* exactly once each when the pipeline has drained.
C18_StoppedGateBlocks ==
  /\ [][(Blocked /\ received' = received /\ ~gateOpen') =>
          (Blocked' /\ runv' = runv /\ nsent' = nsent /\ ~AppendedAny)]_vars
  /\ [](gen = 1 /\ cache =>
          /\ NoDup(received)
          /\ Drained => SeqToBag(received) = SeqToBag(Accepted))

\* C18 witness: CacheStart found run blocked with a value, after Depth + 3
\* sends of which some were spilled before the stop; all were received
C18_Witness ==
  /\ Drained /\ held # NIL /\ held \in Range(received)
  /\ nsent = Depth + 3 /\ Len(received) = Depth + 3
  /\ \E v \in spilled : v < held

\* a spilled or recovered value has not been pushed to Out yet: the writer
\* file has content, or cacheHandler has records of the reader file to decode
\* or a decoded value in hand
Outstanding ==
  \/ Len(disk[cacheW]) > 0
  \/ rpos < Len(disk[cacheR])
  \/ HandlerHand # <<>>

\* C19: whenever a spilled or recovered value has not been pushed to Out yet,
\* CacheHasData() is true.
C19_HasDataWhenOutstanding ==
  (gen = 1 /\ cache /\ Outstanding) => CacheHasData

\* C20: the pipeline constructed on an empty directory has CacheHasData()
\* false as long as no value has been spilled, wherever cacheHandler is.
C20_FreshHasNoData ==
  (gen = 1 /\ cache /\ recovered = <<>> /\ spilled = {}) => ~CacheHasData

\* --------------------------------------------------------- SpecTeardown
\* a pipeline without cache or with one, on a directory empty or left with
\* data; Commit is called at any moment, In open or closed, Out read or not
InitTeardown ==
  \/ InitNoCache
  \/ \E files \in {<<<<>>, <<>>>>, <<<<1>>, <<3>>>>} : InitCached(files, 0, TRUE)

\* the producer sends MaxLockSend values
TeardownRun == run /\ Len(sent') <= MaxLockSend

NextTeardown ==
  \/ NewChanCacher \/ TeardownRun \/ cacheHandler \/ CloseIn \/ ConsumerRecv
  \/ CommitCall \/ Commit

SpecTeardown == InitTeardown /\ [][NextTeardown]_vars

\* C21: with In closed before the call, when Commit has returned on a
\* pipeline with a cache, Out is closed and holds no value
C21_ClosedAtReturn ==
  (cache /\ inClosed /\ cpc = "done") => (outClosed /\ out = <<>>)

C23_AppendUnderLock == [][(gen = 1 /\ cache /\ Appended) => lockOwner = gen]_vars

\* C24: once Out is closed after In was closed, the pipeline does not hold
\* the lock of the directory any more: a later NewChanCacher call on the
\* directory gets the lock
C24_ClosedOutMeansUnlocked == (gen >= 1 /\ inClosed /\ outClosed) => lockOwner # gen

\* Out is closed and a constructor called after that got the lock and
\* opened the files
C24_Witness ==
  gen = 1 /\ inClosed /\ outClosed /\ nid = 2 /\ lockOwner = 2 /\ nres = "ok"

\* -------------------------------------------------------------- SpecNil
\* the producer also sends nil ("c.In <- nil"): run receives it like any
\* other value
RunRecvNil ==
  /\ runpc = "recv" /\ ~inClosed /\ nsent < MaxSend
  /\ runv' = NIL
  /\ nsent' = nsent + 1
  /\ sent' = Append(sent, NIL)
  /\ runpc' = "try"
  /\ UNCHANGED <<fsVars, cfgVars, gateOpen, chanVars, runDone, hVars, fileVars, doneVars,
                 cVars, nVars, nextVal, histVars, auxVars>>

\* the directory may hold nil records left by an earlier process
NilFiles == {<<<<>>, <<>>>>, <<<<NIL>>, <<>>>>, <<<<1, NIL>>, <<3>>>>}

InitNil ==
  \/ InitNoCache
  \/ \E files \in NilFiles : InitCached(files, 0, TRUE)

NextNil ==
  \/ NewChanCacher \/ run \/ RunRecvNil \/ cacheHandler \/ CloseIn \/ ConsumerRecv
  \/ CommitAfterClose \/ Commit

SpecNil == InitNil /\ [][NextNil]_vars

\* C25: a nil sent on In is never put on Out nor received by the consumer
C25_NilNeverDelivered == NIL \notin Range(out) /\ NIL \notin Range(received)

\* the number of nil records of a file
NilCount(f) == Cardinality({i \in 1..Len(f) : f[i] = NIL})

\* C26: no step writes a nil record to a file: not the spill of run, not
\* Commit, not merge
C26_NoNilWritten ==
  [][\A i \in 1..Len(disk') :
       NilCount(disk'[i]) <= (IF i <= Len(disk) THEN NilCount(disk[i]) ELSE 0)]_vars

\* merge has copied a file holding a nil record, and a nil that was sent
\* reached cacheValue
C26_Witness ==
  /\ gen = 1 /\ recovered = <<1, NIL, 3>> /\ Content("cache_a") = <<1, 3>>
  /\ NIL \in Range(sent) /\ runpc = "cv" /\ runv = NIL

\* C27: a pipeline without cache is a FIFO queue of Depth places: what was
\* received, then the buffer of Out, then the value run holds, is at every
\* moment exactly the sequence sent; and once In is closed, everything sent
\* is received and Out is closed
C27_NoCacheIsFifo ==
  /\ [](NoCachePipe => (received \o out \o RunHand = sent /\ Len(out) <= Depth))
  /\ ((NoCachePipe /\ inClosed) ~> (outClosed /\ received = sent))

\* Out is closed after MaxSend values went through a pipeline without cache
C27_Witness ==
  NoCachePipe /\ outClosed /\ received = sent /\ Len(sent) = MaxSend

\* ------------------------------------------------------- SpecQuarantine
\* quarantineCache called on cache_a or cache_b of a directory whose
\* quarantine directory already holds files (Test_quarantineCache,
\* Test_getQuarantineCacheName): at most MaxPre files <name>.<rest>, rest of
\* MaxNameLen characters at most or the least or the greatest int
MaxPre == 2
MaxNameLen == 2
MaxQuar == 2

QChars == {0, 1, 2, DOT, MINUS, LETTER}

QNames ==
  UNION {[1..n -> QChars] : n \in 0..MaxNameLen} \cup {Itoa(MaxInt), Itoa(MinInt)}

\* the sets of k names at most
RECURSIVE NameSets(_)
NameSets(k) ==
  IF k = 0 THEN {{}}
  ELSE LET P == NameSets(k - 1) IN P \cup {T \cup {x} : T \in P, x \in QNames}

\* the files of the quarantine directory take the inodes after cache_a (1)
\* and cache_b (2)
InitQuarantine ==
  /\ names = [n \in {"cache_a", "cache_b", "merge"} |->
                IF n = "cache_a" THEN 1 ELSE IF n = "cache_b" THEN 2 ELSE 0]
  /\ \E S \in NameSets(MaxPre), c \in {<<CORRUPT>>, <<1>>} :
       /\ LET ino == CHOOSE f \in [S -> 3..(2 + Cardinality(S))] :
                       \A x, y \in S : x # y => f[x] # f[y]
          IN /\ disk = <<c, <<>>>> \o [k \in 1..Cardinality(S) |-> <<3>>]
             /\ quar = [n \in {"cache_a", "cache_b"} |->
                          IF n = "cache_a" THEN {<<r, ino[r]>> : r \in S} ELSE {}]
  /\ recovered = <<>>
  /\ lockOwner = 0
  /\ gen = 0 /\ cache = TRUE /\ maxSize = 0
  /\ runpc = "off" /\ hpc = "off"
  /\ cacheR = 1 /\ cacheW = 2
  /\ npc = "idle" /\ nid = 1 /\ final = TRUE
  /\ out = <<>> /\ outClosed = FALSE /\ inClosed = FALSE
  /\ runv = NIL /\ runDone = FALSE
  /\ hv = NIL /\ rpos = 0
  /\ cacheModified = FALSE /\ cacheReading = FALSE /\ cacheLock = ""
  /\ cacheDone = FALSE /\ cacheAck = FALSE /\ cacheIsDone = FALSE
  /\ cacheCommitted = FALSE /\ filesClosed = FALSE
  /\ cpc = "idle" /\ cv = NIL /\ readerStopped = FALSE
  /\ gateOpen = TRUE
  /\ sizeR = 0 /\ sizeW = 0 /\ fa = 0 /\ fb = 0 /\ ft = 0 /\ nR = 0 /\ nW = 0
  /\ nMod = FALSE /\ nres = "none" /\ snap = <<1, 2>>
  /\ nextVal = FirstVal /\ nsent = 0 /\ sent = <<>>
  /\ received = <<>> /\ spilled = {} /\ crashAt = ""
  /\ atCrash = <<>> /\ held = NIL
  /\ decoded = <<>> /\ written = <<>> /\ lost = {}
  /\ runGate = TRUE /\ lastGate = "none" /\ mode = "file"

\* quarantineCache(cPath, "quarantine", lgr) succeeds
QuarantineCall ==
  /\ gen = 0 /\ npc = "idle"
  /\ Len(disk) < 2 + MaxPre + MaxQuar
  /\ \E name \in {"cache_a", "cache_b"} :
       LET r == quarantineCache([nm |-> names, d |-> disk, q |-> quar], name)
       IN names' = r.nm /\ disk' = r.d /\ quar' = r.q
  /\ UNCHANGED <<lockOwner, cfgVars, gateOpen, chanVars, runVars, hVars, fileVars, doneVars,
                 cVars, nVars, prodVars, histVars, atCrash, held, ioAux, gateAux, mode>>

SpecQuarantine == InitQuarantine /\ [][QuarantineCall]_vars

\* the rests of the names of the quarantined files of a cache file
QRests(name) == {e[1] : e \in quar[name]}

\* the largest integer suffix among the matches, 0 when no match has one
LargestSuffix(matches) ==
  LET vals == {Atoi(ExtTail(m)).val : m \in {k \in matches : Atoi(ExtTail(k)).ok}}
  IN IF vals = {} THEN 0 ELSE CHOOSE v \in vals : \A w \in vals : w <= v

\* the name the file that was at a path has in the quarantine directory
\* after the step
NewRest(name) == CHOOSE r \in QNames \cup {Itoa(n) : n \in MinInt..(MaxInt + 1)} :
                   <<r, names[name]>> \in quar'[name]

\* C28: the file moved by quarantineCache gets the name <base>.(m+1), m the
\* largest integer suffix among the files <base>.* of the quarantine
\* directory (0 when there is none), and that name is the name of none of them
C28_NextNameIsFresh ==
  [][\A name \in {"cache_a", "cache_b"} :
       quar'[name] # quar[name] =>
         /\ NewRest(name) = Itoa(LargestSuffix(QRests(name)) + 1)
         /\ NewRest(name) \notin QRests(name)]_vars

C30_SizeZeroAfterDrain ==
  (/\ gen = 1 /\ cache /\ spilled # {}
   /\ (spilled \cup Range(recovered)) \subseteq Range(received)
   /\ runpc \notin {"cv", "cv1"})
  => Size = 0

\* MaxSend values were sent, all of them spilled and then received
C30_Witness ==
  /\ gen = 1 /\ cache /\ Cardinality(spilled) = MaxSend
  /\ (spilled \cup Range(recovered)) \subseteq Range(received)
  /\ Size = 0

\* s is a prefix of t
IsPrefix(s, t) == Len(s) <= Len(t) /\ SubSeq(t, 1, Len(s)) = s

\* C31: within one pipeline, what cacheHandler has decoded is a prefix of
\* the values found at construction followed by the values cacheValue
\* appended, in the order it appended them
C31_ReadBackInOrder == (gen >= 1 /\ cache) => IsPrefix(decoded, recovered \o written)

\* values were found at construction, MaxSend values were spilled, and all
\* of them were decoded
C31_Witness ==
  /\ gen = 1 /\ recovered # <<>> /\ Len(written) = MaxSend
  /\ decoded = recovered \o written

\* C32: cacheHandler swaps the files only when the reader file is empty
\* (read to its end and truncated) and cacheModified is set; right after
\* the swap the new writer file is empty and cacheModified is false; and no
\* step appends to the file cacheHandler is decoding
C32_SwapOnlyWhenDrained ==
  [][/\ (hpc = "swap1" /\ hpc' = "swap2") =>
          /\ disk[cacheR] = <<>> /\ rpos = 0 /\ cacheModified
          /\ cacheR' = cacheW /\ cacheW' = cacheR
          /\ disk'[cacheW'] = <<>> /\ ~cacheModified'
     /\ (gen >= 1 /\ cache /\ hpc \in {"dec", "push", "eof", "trunc"}) =>
          Len(disk'[cacheR]) <= Len(disk[cacheR])]_vars

\* after a second swap cacheHandler decodes a file while run appends to the
\* other one
C32_Witness ==
  /\ gen = 1 /\ hpc = "dec" /\ runpc = "cv2" /\ Len(decoded) > Len(recovered)
  /\ disk[cacheR] # <<>> /\ disk[cacheW] # <<>> /\ recovered # <<>>

\* C33: cacheAck is closed once, by cacheHandler as it returns, after its
\* last push; Out is closed once, by run as it returns, after cacheAck
\* was closed and the loop over In has ended; nobody is about to send on
\* Out once Out is closed
C33_CloseAfterLastSend ==
  gen >= 1 =>
    /\ cacheAck => hpc = "done"
    /\ hpc \in {"dec", "push", "eof", "trunc", "chk", "wait", "swap1", "swap2"} => ~outClosed
    /\ outClosed => (runpc = "done" /\ runDone /\ inClosed /\ (cache => cacheAck))
    /\ runpc \in {"try", "block", "sel", "close"} => ~outClosed

\* Out is closed after cacheHandler pushed a value it had decoded from a
\* spill, with Commit called
C33_Witness ==
  /\ gen = 1 /\ cache /\ outClosed /\ cacheAck /\ written # <<>>
  /\ Len(decoded) > Len(recovered) /\ cpc # "idle"

\* ------------------------------------------------------------ SpecStop
\* as SpecTeardown, and Commit is called again after it has returned, any
\* number of times
CommitAgain ==
  /\ gen > 0 /\ cpc = "done" /\ cache /\ runpc # "dead"
  /\ cpc' = "cfin"
  /\ readerStopped' = FALSE
  /\ UNCHANGED <<fsVars, cfgVars, gateOpen, chanVars, runVars, hVars, fileVars, doneVars,
                 cv, nVars, prodVars, histVars, auxVars>>

NextStop == NextTeardown \/ CommitAgain

SpecStop == InitTeardown /\ [][NextStop]_vars

\* C34: close(c.cacheDone) is executed at most once: whenever cacheDone is
\* closed the flag cacheIsDone is set, so that no call of finishCache, by
\* run or by a Commit, closes it again
C34_StopClosedOnce == gen >= 1 => (cacheDone => cacheIsDone)

\* run has called finishCache and a second Commit has called it again
C34_Witness ==
  /\ gen = 1 /\ cacheDone /\ cacheIsDone /\ filesClosed
  /\ cpc = "cloop" /\ runpc \in {"ack", "unlock", "close", "done"}

\* ------------------------------------------------------- SpecDecodeErr
\* while the pipeline runs, a record that cacheHandler has not decoded yet
\* is overwritten on disk with bytes that do not decode (once); goroutines
\* and consumer are scheduled fairly
CorruptRecord ==
  /\ gen = 1 /\ cache /\ lost = {} /\ CORRUPT \notin Range(disk[cacheR] \o disk[cacheW])
  /\ hpc \in {"h0", "dec", "push"}
  /\ \E i \in (rpos + 1)..Len(disk[cacheR]) :
       /\ disk' = [disk EXCEPT ![cacheR][i] = CORRUPT]
       /\ lost' = {disk[cacheR][i]}
  /\ UNCHANGED <<names, lockOwner, cfgVars, gateOpen, chanVars, runVars, hVars, fileVars,
                 doneVars, cVars, nVars, prodVars, histVars, quar, atCrash, held,
                 decoded, written, gateAux, mode>>

NextDecodeErr == Next \/ CorruptRecord

SpecDecodeErr ==
  /\ Init /\ [][NextDecodeErr]_vars
  /\ WF_vars(NewChanCacher) /\ WF_vars(run) /\ WF_vars(cacheHandler) /\ WF_vars(ConsumerRecv)

\* C35: a value of the undecoded remainder of a file whose decoding failed
\* is never put on Out; and the pipeline goes on: once In is closed, Out gets
\* closed and every accepted value outside such a remainder has been
\* received, those spilled after the failure included
C35_DecodeErrorDropsTail ==
  /\ [](lost \cap (Range(out) \cup Range(received)) = {})
  /\ ((gen = 1 /\ inClosed) ~>
        (outClosed /\ out = <<>> /\ (Range(Accepted) \ lost) \subseteq Range(received)))

\* decoding failed on the first record of the file found at construction,
\* its two values were dropped, and the values spilled later were received
C35_Witness ==
  /\ gen = 1 /\ outClosed /\ recovered = <<1, 2>> /\ lost = {1, 2}
  /\ spilled # {} /\ spilled \subseteq Range(received)

\* ------------------------------------------------------------ SpecOpen
\* before NewChanCacher looks at the directory, the path cache_a may lose
\* its permissions (Chmod(0000)) or be a directory (os.Mkdir) while cache_b
\* is empty; a construction that failed is tried again; the garbage
\* collector may finalize the lock file of a construction that failed
PathMode ==
  /\ gen = 0 /\ npc = "clean" /\ nres = "none" /\ mode = "file"
  /\ Content("cache_b") = <<>>
  /\ \E m \in PathModes \ {"file"} :
       /\ mode' = m
       /\ disk' = (IF m = "dir" THEN [disk EXCEPT ![names["cache_a"]] = <<>>] ELSE disk)
       /\ recovered' = (IF m = "dir" THEN <<>> ELSE recovered)
  /\ UNCHANGED <<names, lockOwner, cfgVars, gateOpen, chanVars, runVars, hVars, fileVars,
                 doneVars, cVars, nVars, prodVars, received, spilled, crashAt,
                 quar, atCrash, held, ioAux, gateAux>>

\* the lock of <dir>/lock belongs to a construction that returned an error
Orphaned == lockOwner # 0 /\ lockOwner > gen /\ npc \notin {"open", "go"}

\* NewChanCacher is called again after it returned an error
NewAgain ==
  /\ gen = 0 /\ npc = "idle" /\ nres = "err"
  /\ NewCall(TRUE)
  /\ UNCHANGED <<fsVars, cfgVars, gateOpen, chanVars, runVars, hVars, fileVars, doneVars,
                 cVars, prodVars, histVars, auxVars>>

\* the finalizer of the os.File of a flock.Flock nobody refers to closes
\* its descriptor: the lock is gone
LockFinalized ==
  /\ Orphaned
  /\ lockOwner' = 0
  /\ UNCHANGED <<names, disk, cfgVars, gateOpen, chanVars, runVars, hVars, fileVars, doneVars,
                 cVars, nVars, prodVars, histVars, auxVars>>

NextOpen ==
  \/ NewChanCacher \/ run \/ cacheHandler \/ CloseIn \/ ConsumerRecv
  \/ PathMode \/ NewAgain \/ LockFinalized

SpecOpen == Init /\ [][NextOpen]_vars

\* a file of the path name is moved to the quarantine directory in this step
Quarantined(name) == quar'[name] # quar[name]

\* C36: openCache quarantines a path only when opening it fails for
\* permissions or when its content does not decode; when the path is a
\* directory, NewChanCacher returns an error, and the directory, the other
\* path and the quarantine directory are as they were.
C36_QuarantineOnlyPermOrDecode ==
  [][npc = "open" =>
       /\ \A name \in {"cache_a", "cache_b"} :
            Quarantined(name) =>
              (ModeOf(mode, name) = "noperm" \/ ~validateCache(Content(name)))
       /\ mode = "dir" =>
            (nres' = "err" /\ npc' = "idle" /\ mode' = "dir"
               /\ names' = names /\ disk' = disk /\ quar' = quar)]_vars

\* the call on a directory has returned an error: the directory is still at
\* the path, cache_b was not created anew and nothing is quarantined
C36_Witness ==
  /\ gen = 0 /\ mode = "dir" /\ npc = "idle" /\ nres = "err"
  /\ names["cache_a"] = snap[1] /\ names["cache_b"] = snap[2]
  /\ quar["cache_a"] = {} /\ quar["cache_b"] = {}

\* C38: when NewChanCacher fails after it took the lock of <dir>/lock (a
\* cache file cannot be opened), the lock is released when the error is
\* returned, and the next call of NewChanCacher on the directory is not
\* refused for the lock.
C38_LockReleasedOnError ==
  [][/\ (npc = "open" /\ nres' = "err") => lockOwner' = 0
     /\ (gen = 0 /\ npc = "lock") => nres' # "locked"]_vars

\* C37: when Commit has returned on a pipeline with cache, at most one of
\* cache_a and cache_b holds records: the reader file is empty, and what is
\* on disk is in the writer file.
C37_OneFileAfterCommit ==
  (gen >= 1 /\ cache /\ cpc = "done") =>
    /\ ~(Content("cache_a") # <<>> /\ Content("cache_b") # <<>>)
    /\ disk[cacheR] = <<>>

\* Commit has returned after the files were swapped: the values read back
\* from Out are in the writer file, now cache_a, and cache_b is empty
C37_Witness ==
  /\ gen = 1 /\ cache /\ cpc = "done" /\ decoded # <<>>
  /\ cacheR = names["cache_b"] /\ disk[cacheR] = <<>> /\ disk[cacheW] # <<>>

\* a call of CacheStart or CacheStop happens in this step and is not a
\* repetition of the call before it
GateCall == lastGate' # lastGate

\* C39: whatever the order of the calls of CacheStart and CacheStop and of
\* the steps of run, the channel cachePaused is never closed twice; with
\* cache, the gate is open exactly when the last call was CacheStart or when
\* there was no call; a CacheStart that finds run blocked on a stopped gate
\* releases it; without cache, both calls change nothing of the pipeline.
C39_GateFollowsLastCall ==
  [][/\ crashAt' # "panic"
     /\ (gen' >= 1 /\ cache') => (gateOpen' <=> lastGate' \in {"none", "start"})
     /\ (Blocked /\ lastGate' = "start") => (runGate' /\ ~Blocked')
     /\ (gen >= 1 /\ ~cache /\ GateCall) =>
          (gateOpen' = gateOpen /\ runGate' = runGate
             /\ UNCHANGED <<chanVars, runVars, fileVars, fsVars>>)]_vars

\* the gate was stopped, run blocked on it with a value in its hand, and
\* CacheStart released it: the value went to the writer file
C39_Witness ==
  /\ gen = 1 /\ cache /\ lastGate = "start" /\ gateOpen
  /\ held # NIL /\ held \in spilled

====
